---------------------------- MODULE Spec2Model ----------------------------
(***************************************************************************)
(* OFS Vanisher (src/ofs_vanisher.py): the ignore list, its matcher, the   *)
(* scope synchronizer, the response rewrite, persistence and the pipeline  *)
(* hook, as a state machine.                                               *)
(*                                                                         *)
(* Strings are sequences of one-character strings, so that startswith,    *)
(* endswith, lower, strip, split and join are computed character by        *)
(* character as the Python code computes them.                             *)
(***************************************************************************)
EXTENDS Integers, Sequences, FiniteSets, TLC

VARIABLES
    ignorelist,   \* self.ignorelist, the ordered ignore list
    listModel,    \* self.listModel, the Swing list model shown in the tab
    setting,      \* the extension setting stored under SETTING_KEY, or None
    ui,           \* the event-dispatch thread: which handler it is in
    report,       \* what the last handler did: scope calls, added, failed
    worker,       \* a thread of Burp running processHttpMessage
    fn            \* a pure function under test: its inputs and its output

vars == <<ignorelist, listModel, setting, ui, report, worker, fn>>

-----------------------------------------------------------------------------
(* Bounds of the model. *)

MaxHostLen == 3     \* longest host name / host entry drawn for the matcher
MaxHeaders == 3     \* most header lines of a response drawn for the rewrite
MaxEntries == 2     \* most entries the ignore list is grown to
MaxEntryLen == 3    \* longest entry drawn for the persistence round trip
MaxRows == 4        \* most rows of the list a selection is removed from

-----------------------------------------------------------------------------
(* Python values. *)

\* Python's None: no string, a sequence of one-character strings, equals it.
None == <<"None">>

\* Python truthiness of a str-or-None: None and "" are falsy.
Truthy(s) == s # None /\ s # <<>>

UPPERCASE == <<"A", "B", "C", "D", "E", "F", "G", "H", "I", "J", "K", "L", "M",
               "N", "O", "P", "Q", "R", "S", "T", "U", "V", "W", "X", "Y", "Z">>
LOWERCASE == <<"a", "b", "c", "d", "e", "f", "g", "h", "i", "j", "k", "l", "m",
               "n", "o", "p", "q", "r", "s", "t", "u", "v", "w", "x", "y", "z">>

LowerChar(c) ==
    IF \E i \in 1..26 : UPPERCASE[i] = c
    THEN LOWERCASE[CHOOSE i \in 1..26 : UPPERCASE[i] = c]
    ELSE c

\* str.lower()
Lower(s) == [i \in 1..Len(s) |-> LowerChar(s[i])]

\* str.startswith(p)
StartsWith(s, p) == Len(s) >= Len(p) /\ SubSeq(s, 1, Len(p)) = p

\* str.endswith(p)
EndsWith(s, p) == Len(s) >= Len(p) /\ SubSeq(s, Len(s) - Len(p) + 1, Len(s)) = p

\* The characters str.strip() removes and the ones str.splitlines() breaks at,
\* among the characters of the model.
WHITESPACE == {" ", "\t", "\n", "\r"}
LINEBREAKS == {"\n", "\r"}

RECURSIVE LStrip(_)
LStrip(s) == IF s # <<>> /\ Head(s) \in WHITESPACE THEN LStrip(Tail(s)) ELSE s

RECURSIVE RStrip(_)
RStrip(s) ==
    IF s # <<>> /\ s[Len(s)] \in WHITESPACE THEN RStrip(SubSeq(s, 1, Len(s) - 1)) ELSE s

strip_nothing(s) == s

\* str.strip()
Strip(s) == RStrip(LStrip(s))

\* All sequences over alphabet of length lo..hi.
SeqsOf(alphabet, lo, hi) == UNION {[1..n -> alphabet] : n \in lo..hi}

STR_http == <<"h", "t", "t", "p", ":", "/", "/">>
STR_https == <<"h", "t", "t", "p", "s", ":", "/", "/">>
STR_caret == <<"^">>

-----------------------------------------------------------------------------
(* re.search, for patterns written with literals, '.', '*', '{n}', '^', '$' *)
(* and backslash-escaped punctuation (no backslash before a letter or a    *)
(* digit, no comma in braces), on text without line breaks.                *)

\* What re raises for a pattern that does not compile.
RE_ERROR == <<[kind |-> "re.error", ch |-> "", min |-> 0, max |-> 0, rep |-> FALSE]>>

\* What sre_parse raises, instead of re.error, for a repeat count that is too
\* large.
RE_OVERFLOW ==
    <<[kind |-> "OverflowError", ch |-> "", min |-> 0, max |-> 0, rep |-> FALSE]>>

\* sre_constants.MAXREPEAT, at least; a larger one on some builds.
MAXREPEAT == 65535

ReItem(kind, ch) == [kind |-> kind, ch |-> ch, min |-> 1, max |-> 1, rep |-> FALSE]

DECIMALS == {"0", "1", "2", "3", "4", "5", "6", "7", "8", "9"}
DigitValue(c) == CHOOSE d \in 0..9 : ToString(d) = c

\* The first position from i on that holds no digit.
RECURSIVE DigitsEnd(_, _)
DigitsEnd(p, i) == IF i <= Len(p) /\ p[i] \in DECIMALS THEN DigitsEnd(p, i + 1) ELSE i

\* int(lo) for the digits at i..j, as far as it is compared with MAXREPEAT.
RECURSIVE RepeatCount(_, _, _, _)
RepeatCount(p, i, j, acc) ==
    IF i > j THEN acc
    ELSE LET v == acc * 10 + DigitValue(p[i])
         IN RepeatCount(p, i + 1, j, IF v >= MAXREPEAT THEN MAXREPEAT ELSE v)

\* The item before a repeat: "nothing to repeat" with none or an anchor there,
\* "multiple repeat" with a repeated one.
Repeatable(items) ==
    /\ items # <<>>
    /\ items[Len(items)].kind \notin {"bol", "eol"}
    /\ ~items[Len(items)].rep

\* sre_parse: the pattern's items left to right.  '*' and '{n}' repeat the item
\* before them; a '{' that opens no '{n}' is a literal; a trailing backslash is
\* a "bogus escape".
RECURSIVE ParseRe(_, _, _)
ParseRe(p, i, items) ==
    IF i > Len(p) THEN items
    ELSE LET c == p[i]
             n == Len(items)
             j == DigitsEnd(p, i + 1)
         IN CASE c = "*" ->
                   IF ~Repeatable(items) THEN RE_ERROR
                   ELSE ParseRe(p, i + 1,
                                [items EXCEPT ![n] = [@ EXCEPT !.min = 0, !.max = -1,
                                                               !.rep = TRUE]])
              [] c = "{" /\ j > i + 1 /\ j <= Len(p) /\ p[j] = "}" ->
                   LET count == RepeatCount(p, i + 1, j - 1, 0)
                   IN IF count >= MAXREPEAT THEN RE_OVERFLOW
                      ELSE IF ~Repeatable(items) THEN RE_ERROR
                      ELSE ParseRe(p, j + 1,
                                   [items EXCEPT ![n] = [@ EXCEPT !.min = count,
                                                                  !.max = count,
                                                                  !.rep = TRUE]])
              [] c = "\\" ->
                   IF i = Len(p) THEN RE_ERROR
                   ELSE ParseRe(p, i + 2, Append(items, ReItem("lit", p[i + 1])))
              [] c = "^" -> ParseRe(p, i + 1, Append(items, ReItem("bol", c)))
              [] c = "$" -> ParseRe(p, i + 1, Append(items, ReItem("eol", c)))
              [] c = "." -> ParseRe(p, i + 1, Append(items, ReItem("any", c)))
              [] OTHER -> ParseRe(p, i + 1, Append(items, ReItem("lit", c)))

ReCompile(p) == ParseRe(p, 1, <<>>)

AtomMatches(item, c) == item.kind = "any" \/ (item.kind = "lit" /\ item.ch = c)

\* Whether items k.. match text starting at position i (backtracking).
RECURSIVE MatchHere(_, _, _, _)
MatchHere(items, k, text, i) ==
    IF k > Len(items) THEN TRUE
    ELSE LET it == items[k]
             left == Len(text) + 1 - i
             most == IF it.max = -1 \/ it.max > left THEN left ELSE it.max
         IN CASE it.kind = "bol" -> i = 1 /\ MatchHere(items, k + 1, text, i)
              [] it.kind = "eol" -> i = Len(text) + 1 /\ MatchHere(items, k + 1, text, i)
              [] OTHER ->
                   \E n \in it.min..most :
                       /\ \A x \in i..(i + n - 1) : AtomMatches(it, text[x])
                       /\ MatchHere(items, k + 1, text, i + n)

\* re.search(pattern, text) is not None, for a pattern that compiles.
re_search(p, text) ==
    \E start \in 1..(Len(text) + 1) : MatchHere(ReCompile(p), 1, text, start)

-----------------------------------------------------------------------------
(* The matcher. *)

\* What kind of rule a raw entry is: the tests of _exclude_entry and of
\* _matches_ignore, in their order.
entry_kind(entry) ==
    IF StartsWith(entry, STR_caret) THEN "regex"
    ELSE IF StartsWith(Lower(entry), STR_http) \/ StartsWith(Lower(entry), STR_https)
    THEN "url"
    ELSE "host"

\* One iteration of the loop of _matches_ignore raises an exception that its
\* `except re.error` lets through: re.search on a pattern with too large a
\* repeat count.
entry_raises(entry, host, url_base) ==
    /\ entry # <<>>
    /\ StartsWith(entry, STR_caret)
    /\ ReCompile(entry) = RE_OVERFLOW

\* entry_matches, had the suffix test left out the dot before the entry.
entry_matches_nodot(entry, host, url_base) ==
    IF entry = <<>> THEN FALSE
    ELSE IF StartsWith(entry, STR_caret)
    THEN IF ReCompile(entry) \in {RE_ERROR, RE_OVERFLOW} THEN FALSE
         ELSE re_search(entry, host) \/ re_search(entry, url_base)
    ELSE IF StartsWith(Lower(entry), STR_http) \/ StartsWith(Lower(entry), STR_https)
    THEN url_base = entry
    ELSE host = entry \/ (host # <<>> /\ EndsWith(host, entry))

\* entry_matches, had the suffix test been applied the wrong way round and
\* without its guard on an empty host.
entry_matches_swapped(entry, host, url_base) ==
    IF entry = <<>> THEN FALSE
    ELSE IF StartsWith(entry, STR_caret)
    THEN IF ReCompile(entry) \in {RE_ERROR, RE_OVERFLOW} THEN FALSE
         ELSE re_search(entry, host) \/ re_search(entry, url_base)
    ELSE IF StartsWith(Lower(entry), STR_http) \/ StartsWith(Lower(entry), STR_https)
    THEN url_base = entry
    ELSE host = entry \/ EndsWith(<<".">> \o entry, host)

\* One iteration of the loop of _matches_ignore: TRUE when it returns True,
\* FALSE when it goes on to the next entry.
entry_matches(entry, host, url_base) ==
    IF entry = <<>> THEN FALSE
    ELSE IF StartsWith(entry, STR_caret)
    THEN IF ReCompile(entry) \in {RE_ERROR, RE_OVERFLOW} THEN FALSE
         ELSE re_search(entry, host) \/ re_search(entry, url_base)
    ELSE IF StartsWith(Lower(entry), STR_http) \/ StartsWith(Lower(entry), STR_https)
    THEN url_base = entry
    ELSE host = entry \/ (host # <<>> /\ EndsWith(host, <<".">> \o entry))

\* _matches_ignore on a list that no other thread changes meanwhile: True at
\* the first entry that matches, False at the end of the list and when an
\* iteration raises, which the outer `except Exception` catches.
RECURSIVE match_from(_, _, _, _)
match_from(list, i, host, url_base) ==
    IF i > Len(list) THEN FALSE
    ELSE IF entry_raises(list[i], host, url_base) THEN FALSE
    ELSE IF entry_matches(list[i], host, url_base) THEN TRUE
    ELSE match_from(list, i + 1, host, url_base)

matches_ignore(list, host, url_base) == match_from(list, 1, host, url_base)

-----------------------------------------------------------------------------
(* The values the variables hold while their part of the program is idle. *)

UiIdle == [pc |-> "idle"]
NoReport == [op |-> "none"]
WorkerIdle == [pc |-> "idle"]
NoFn == [op |-> "none", done |-> FALSE]

-----------------------------------------------------------------------------
(* The matcher as a function: _matches_ignore(host, url_base) called once   *)
(* on an ignore list that nothing else changes.                            *)

HOST_CHARS == {"a", "b", "."}
HostNames == SeqsOf(HOST_CHARS, 1, MaxHostLen)

E_host == <<"a", ".", "b">>
E_url == STR_http \o E_host \o <<"/", "p">>
E_url_other == STR_http \o E_host \o <<"/", "q">>
E_url_port == STR_http \o E_host \o <<":", "8", "0", "/", "p">>
E_url_query == E_url \o <<"?", "x", "=", "1">>
E_url_upper == <<"H", "T", "T", "P", ":", "/", "/">> \o E_host \o <<"/", "p">>
E_re_any == <<"^", ".", "*">>
E_re_empty == <<"^", "$">>
E_re_host == <<"^", "a", "\\", ".", "b", "$">>
E_re_url == <<"^", "h", "t", "t", "p", ":", ".", "*", "p", "$">>
E_re_bad == <<"^", "*">>
E_re_overflow == <<"^", "a", "{", "9", "9", "9", "9", "9", "9", "9", "9", "9", "9", "9", "}">>

UrlEntries == {E_url, E_url_port, E_url_query, E_url_upper}
RegexEntries == {E_re_any, E_re_empty, E_re_host, E_re_url, E_re_bad, E_re_overflow}

\* The ignore lists the matcher is called on: every one-entry list, and the
\* two-entry lists over a few entries of each kind.
PairEntries == {<<"b">>, E_host, E_url, E_re_host, E_re_bad, E_re_overflow}
MatchLists ==
    {<<>>}
        \cup {<<e>> : e \in HostNames \cup UrlEntries \cup RegexEntries}
        \cup {<<e1, e2>> : e1 \in PairEntries, e2 \in PairEntries}
MatchHosts == {<<>>} \cup HostNames
MatchUrls == {<<>>, E_url, E_url_other, E_url_port}

InitMatch ==
    /\ ignorelist = <<>>
    /\ listModel = <<>>
    /\ setting = None
    /\ ui = UiIdle
    /\ report = NoReport
    /\ worker = WorkerIdle
    /\ fn \in {[op |-> "matches_ignore", done |-> FALSE, list |-> l, host |-> h,
                url_base |-> u, out |-> FALSE] :
                   l \in MatchLists, h \in MatchHosts, u \in MatchUrls}

CallMatchesIgnore ==
    /\ fn.op = "matches_ignore"
    /\ ~fn.done
    /\ fn' = [fn EXCEPT !.done = TRUE,
                        !.out = matches_ignore(fn.list, fn.host, fn.url_base)]
    /\ UNCHANGED <<ignorelist, listModel, setting, ui, report, worker>>

NextMatch == CallMatchesIgnore

SpecMatch == InitMatch /\ [][NextMatch]_vars

Returned == fn.op = "matches_ignore" /\ fn.done

\* C1: with an ignore list of the single host entry h1 and a non-empty host h,
\* the matcher returns true exactly when h is h1 or h is s + "." + h1 for some
\* (possibly empty) s; a host that merely ends with h1 does not match.
C1_HostEntryMatchesSubdomains ==
    (/\ Returned
     /\ Len(fn.list) = 1
     /\ entry_kind(fn.list[1]) = "host"
     /\ fn.host # <<>>)
        => (fn.out <=>
              \/ fn.host = fn.list[1]
              \/ \E k \in 0..Len(fn.host) :
                     fn.host = SubSeq(fn.host, 1, k) \o <<".">> \o fn.list[1])

\* C1's case: host "a.b" matched against the single host entry "b", its parent
\* domain, and found to match.
C1_Witness ==
    /\ Returned
    /\ fn.list = << <<"b">> >>
    /\ fn.host = <<"a", ".", "b">>
    /\ fn.out

\* C7 as stated: with an empty host the matcher returns false, whatever the
\* ignore list (regex and URL entries included) and whatever the urlBase.
C7_EmptyHostNeverMatches ==
    (Returned /\ fn.host = <<>>) => ~fn.out

\* C7 amended: with an empty host the matcher returns true exactly when some
\* entry is a URL entry equal to urlBase, or a regex entry that compiles and
\* finds a match in the empty string or in urlBase, and no entry before it makes
\* re.search raise another exception than re.error; host entries never match an
\* empty host.
C7_EmptyHostMatchesOnlyUrlOrRegex ==
    (Returned /\ fn.host = <<>>)
        => (fn.out <=>
              \E i \in 1..Len(fn.list) :
                  LET e == fn.list[i]
                  IN /\ \/ entry_kind(e) = "url" /\ fn.url_base = e
                        \/ /\ entry_kind(e) = "regex"
                           /\ ReCompile(e) \notin {RE_ERROR, RE_OVERFLOW}
                           /\ re_search(e, <<>>) \/ re_search(e, fn.url_base)
                     /\ \A k \in 1..(i - 1) : ReCompile(fn.list[k]) # RE_OVERFLOW)

\* C7's case: the matcher has returned for an empty host, on a list that holds
\* a host entry and a URL entry equal to urlBase.
C7_Witness ==
    /\ Returned
    /\ fn.host = <<>>
    /\ fn.list = <<E_host, E_url>>
    /\ fn.url_base = E_url
    /\ fn.out

-----------------------------------------------------------------------------
(* The response rewrite of processHttpMessage.  A response is its header   *)
(* lines (the status line first), as analyzeResponse returns them, and its *)
(* body, the bytes from getBodyOffset() on; buildHttpMessage puts the two  *)
(* together again.                                                         *)

STR_content_type_colon ==
    <<"c", "o", "n", "t", "e", "n", "t", "-", "t", "y", "p", "e", ":">>
HDR_CONTENT_TYPE_CSS ==
    <<"C", "o", "n", "t", "e", "n", "t", "-", "T", "y", "p", "e", ":", " ",
      "t", "e", "x", "t", "/", "c", "s", "s", ";", " ",
      "c", "h", "a", "r", "s", "e", "t", "=", "U", "T", "F", "-", "8">>
HDR_MARKER ==
    <<"X", "-", "O", "F", "S", "-", "V", "a", "n", "i", "s", "h", "e", "r", ":", " ",
      "i", "g", "n", "o", "r", "e", "d">>

\* h.lower().startswith("content-type:")
is_content_type(h) == StartsWith(Lower(h), STR_content_type_colon)

\* A rewrite that tests the header name as it is written, "Content-Type:".
rewrite_headers_case_sensitive(headers) ==
    SelectSeq(headers, LAMBDA h : ~StartsWith(h, SubSeq(HDR_CONTENT_TYPE_CSS, 1, 13)))
        \o <<HDR_CONTENT_TYPE_CSS, HDR_MARKER>>

\* A rewrite that removes no header.
rewrite_headers_keep_all(headers) ==
    headers \o <<HDR_CONTENT_TYPE_CSS, HDR_MARKER>>

\* The header list handed to buildHttpMessage.
rewrite_headers(headers) ==
    SelectSeq(headers, LAMBDA h : ~is_content_type(h))
        \o <<HDR_CONTENT_TYPE_CSS, HDR_MARKER>>

\* The response handed to setResponse.
rewrite(response) ==
    [headers |-> rewrite_headers(response.headers), body |-> response.body]

H_status == <<"H", "T", "T", "P", "/", "1", ".", "1", " ", "2", "0", "0", " ", "O", "K">>
H_ct_html ==
    <<"C", "o", "n", "t", "e", "n", "t", "-", "T", "y", "p", "e", ":", " ",
      "t", "e", "x", "t", "/", "h", "t", "m", "l">>
H_ct_upper == <<"C", "O", "N", "T", "E", "N", "T", "-", "T", "Y", "P", "E", ":", "x">>
H_ct_space ==
    <<"C", "o", "n", "t", "e", "n", "t", "-", "T", "y", "p", "e", " ", ":", " ", "a">>
H_xfoo == <<"X", "-", "F", "o", "o", ":", " ", "1">>

HeaderLines == {H_status, H_ct_html, H_ct_upper, H_ct_space, H_xfoo, HDR_MARKER}
Bodies == {<<>>, <<"<", "p", ">">>}
Responses ==
    {[headers |-> h, body |-> b] : h \in SeqsOf(HeaderLines, 0, MaxHeaders), b \in Bodies}

InitRewrite ==
    /\ ignorelist = <<>>
    /\ listModel = <<>>
    /\ setting = None
    /\ ui = UiIdle
    /\ report = NoReport
    /\ worker = WorkerIdle
    /\ fn \in {[op |-> "rewrite", done |-> FALSE, times |-> 0, r |-> r,
                once |-> r, twice |-> r] : r \in Responses}

\* The rewrite applied to a response.
RewriteOnce ==
    /\ fn.op = "rewrite"
    /\ fn.times = 0
    /\ fn' = [fn EXCEPT !.times = 1, !.once = rewrite(fn.r)]
    /\ UNCHANGED <<ignorelist, listModel, setting, ui, report, worker>>

\* The rewrite applied to its own output.
RewriteAgain ==
    /\ fn.op = "rewrite"
    /\ fn.times = 1
    /\ fn' = [fn EXCEPT !.times = 2, !.done = TRUE, !.twice = rewrite(fn.once)]
    /\ UNCHANGED <<ignorelist, listModel, setting, ui, report, worker>>

NextRewrite == RewriteOnce \/ RewriteAgain

SpecRewrite == InitRewrite /\ [][NextRewrite]_vars

\* C2: the rewrite applied to its own output gives the same header list and
\* body as the rewrite applied once.
C2_RewriteIdempotent ==
    (fn.op = "rewrite" /\ fn.times = 2) => fn.twice = fn.once

-----------------------------------------------------------------------------
(* Persistence: _persist_now writes the setting, the next start reads it.  *)

\* "\n".join(entries)
RECURSIVE JoinLines(_)
JoinLines(entries) ==
    IF entries = <<>> THEN <<>>
    ELSE IF Len(entries) = 1 THEN entries[1]
    ELSE entries[1] \o <<"\n">> \o JoinLines(Tail(entries))

\* str.splitlines(): the lines of data, broken at "\n", "\r" and "\r\n" (one
\* break), the breaks dropped, and no empty last line after a final break.
RECURSIVE SplitLines(_, _, _)
SplitLines(data, i, line) ==
    IF i > Len(data) THEN (IF line = <<>> THEN <<>> ELSE <<line>>)
    ELSE IF data[i] = "\r" /\ i < Len(data) /\ data[i + 1] = "\n"
    THEN <<line>> \o SplitLines(data, i + 2, <<>>)
    ELSE IF data[i] \in LINEBREAKS
    THEN <<line>> \o SplitLines(data, i + 1, <<>>)
    ELSE SplitLines(data, i + 1, Append(line, data[i]))

splitlines(data) == SplitLines(data, 1, <<>>)

\* The loop of registerExtenderCallbacks over the lines of the setting.
RECURSIVE load_lines(_)
load_lines(lines) ==
    IF lines = <<>> THEN <<>>
    ELSE LET v == Strip(Head(lines))
         IN IF v # <<>> THEN <<v>> \o load_lines(Tail(lines))
            ELSE load_lines(Tail(lines))

\* self.ignorelist after the start of the extension with `data` stored.
load_setting(data) == IF Truthy(data) THEN load_lines(splitlines(data)) ELSE <<>>

\* The data _persist_now hands to saveExtensionSetting.
persist_data(entries) == JoinLines(entries)

\* Entries the list can hold: not empty, nothing to strip at either end.
ENTRY_CHARS == {"a", "b", " ", "\r", "\n"}
StoredEntries == {e \in SeqsOf(ENTRY_CHARS, 1, MaxEntryLen) : Strip(e) = e}
StoredLists == SeqsOf(StoredEntries, 0, 2)

InitPersist ==
    /\ ignorelist \in StoredLists
    /\ listModel = ignorelist
    /\ setting = None
    /\ ui = UiIdle
    /\ report = NoReport
    /\ worker = WorkerIdle
    /\ fn = [op |-> "persist", done |-> FALSE, saved |-> FALSE, loaded |-> <<>>]

\* _persist_now, the save succeeding.
SaveList ==
    /\ fn.op = "persist"
    /\ ~fn.saved
    /\ setting' = persist_data(ignorelist)
    /\ fn' = [fn EXCEPT !.saved = TRUE]
    /\ UNCHANGED <<ignorelist, listModel, ui, report, worker>>

\* The load at the next start, into a fresh list.
LoadSaved ==
    /\ fn.op = "persist"
    /\ fn.saved
    /\ ~fn.done
    /\ fn' = [fn EXCEPT !.done = TRUE, !.loaded = load_setting(setting)]
    /\ UNCHANGED <<ignorelist, listModel, setting, ui, report, worker>>

NextPersist == SaveList \/ LoadSaved

SpecPersist == InitPersist /\ [][NextPersist]_vars

HasNewline(e) == \E i \in 1..Len(e) : e[i] = "\n"

\* C9: an ignore list none of whose entries contains "\n", saved and loaded
\* again, comes back as the same entries in the same order.
C9_PersistenceRoundTrip ==
    (/\ fn.op = "persist"
     /\ fn.done
     /\ \A i \in 1..Len(ignorelist) : ~HasNewline(ignorelist[i]))
        => fn.loaded = ignorelist

-----------------------------------------------------------------------------
(* The scope synchronizer: _exclude_entry and the loops that call it.      *)
(*                                                                         *)
(* excludeFromScope is Burp's; whether a submission raises is Burp's       *)
(* choice, drawn per handler as `bad`, the URLs whose submission raises.   *)
(* The accumulator holds the lists the code passes along (added, failed),  *)
(* and, as a record of what happened, the entries _exclude_entry was       *)
(* called with (synced) and the submissions made to Burp (calls).  An      *)
(* element of `added` stands for the entry with or without " (ANY)", an    *)
(* element of `failed` for the entry with the reason in brackets.          *)

NoSync == [synced |-> <<>>, calls |-> <<>>, added |-> <<>>, failed |-> <<>>]

HttpUrlOf(host) == STR_http \o host \o <<"/">>
HttpsUrlOf(host) == STR_https \o host \o <<"/">>

\* The URLs _exclude_entry submits for an entry when nothing raises.
ScopeUrlsOf(entry) ==
    IF entry = <<>> \/ entry_kind(entry) = "regex" THEN {}
    ELSE IF entry_kind(entry) = "url" THEN {entry}
    ELSE {HttpUrlOf(entry), HttpsUrlOf(entry)}

Call(url, bad) == [url |-> url, ok |-> url \notin bad]
Failure(entry, why) == [entry |-> entry, why |-> why]
Success(entry, any) == [entry |-> entry, any |-> any]

\* _exclude_entry without its test for a regex entry.
exclude_entry_regex_as_host(entry, acc, bad) ==
    LET a == [acc EXCEPT !.synced = Append(@, entry)]
    IN IF entry = <<>> THEN a
       ELSE IF StartsWith(Lower(entry), STR_http) \/ StartsWith(Lower(entry), STR_https)
       THEN IF entry \in bad
            THEN [a EXCEPT !.calls = Append(@, Call(entry, bad)),
                           !.failed = Append(@, Failure(entry, "exception"))]
            ELSE [a EXCEPT !.calls = Append(@, Call(entry, bad)),
                           !.added = Append(@, Success(entry, FALSE))]
       ELSE IF HttpUrlOf(entry) \in bad
            THEN [a EXCEPT !.calls = Append(@, Call(HttpUrlOf(entry), bad)),
                           !.failed = Append(@, Failure(entry, "exception"))]
            ELSE IF HttpsUrlOf(entry) \in bad
            THEN [a EXCEPT !.calls = @ \o <<Call(HttpUrlOf(entry), bad),
                                            Call(HttpsUrlOf(entry), bad)>>,
                           !.failed = Append(@, Failure(entry, "exception"))]
            ELSE [a EXCEPT !.calls = @ \o <<Call(HttpUrlOf(entry), bad),
                                            Call(HttpsUrlOf(entry), bad)>>,
                           !.added = Append(@, Success(entry, TRUE))]

\* _exclude_entry: the entry is added to `synced`, its submissions to `calls`,
\* and the entry to `added` or to `failed`.
exclude_entry(entry, acc, bad) ==
    LET a == [acc EXCEPT !.synced = Append(@, entry)]
    IN IF entry = <<>> THEN a
       ELSE IF StartsWith(entry, STR_caret)
       THEN [a EXCEPT !.failed = Append(@, Failure(entry, "regex"))]
       ELSE IF StartsWith(Lower(entry), STR_http) \/ StartsWith(Lower(entry), STR_https)
       THEN IF entry \in bad
            THEN [a EXCEPT !.calls = Append(@, Call(entry, bad)),
                           !.failed = Append(@, Failure(entry, "exception"))]
            ELSE [a EXCEPT !.calls = Append(@, Call(entry, bad)),
                           !.added = Append(@, Success(entry, FALSE))]
       ELSE IF HttpUrlOf(entry) \in bad
            THEN [a EXCEPT !.calls = Append(@, Call(HttpUrlOf(entry), bad)),
                           !.failed = Append(@, Failure(entry, "exception"))]
            ELSE IF HttpsUrlOf(entry) \in bad
            THEN [a EXCEPT !.calls = @ \o <<Call(HttpUrlOf(entry), bad),
                                            Call(HttpsUrlOf(entry), bad)>>,
                           !.failed = Append(@, Failure(entry, "exception"))]
            ELSE [a EXCEPT !.calls = @ \o <<Call(HttpUrlOf(entry), bad),
                                            Call(HttpsUrlOf(entry), bad)>>,
                           !.added = Append(@, Success(entry, TRUE))]

\* A loop that gives up at the first entry that fails.
RECURSIVE exclude_each_abort(_, _, _)
exclude_each_abort(entries, acc, bad) ==
    IF entries = <<>> THEN acc
    ELSE LET a == exclude_entry(Head(entries), acc, bad)
         IN IF Len(a.failed) > Len(acc.failed) THEN a
            ELSE exclude_each_abort(Tail(entries), a, bad)

\* A loop that stops before the last entry.
RECURSIVE exclude_each_but_last(_, _, _)
exclude_each_but_last(entries, acc, bad) ==
    IF Len(entries) <= 1 THEN acc
    ELSE exclude_each_but_last(Tail(entries), exclude_entry(Head(entries), acc, bad), bad)

\* for entry in entries: added, failed = self._exclude_entry(entry, added, failed)
RECURSIVE exclude_each(_, _, _)
exclude_each(entries, acc, bad) ==
    IF entries = <<>> THEN acc
    ELSE exclude_each(Tail(entries), exclude_entry(Head(entries), acc, bad), bad)

RECURSIVE UrlsOfAll(_)
UrlsOfAll(entries) ==
    IF entries = <<>> THEN {} ELSE ScopeUrlsOf(Head(entries)) \cup UrlsOfAll(Tail(entries))

\* What a handler leaves in `report`.
Report(env, op, accepted, entries, sync, saved) ==
    IF ~env.reported THEN [op |-> "none"] ELSE
    [op |-> op, accepted |-> accepted, entries |-> entries, synced |-> sync.synced, calls |-> sync.calls,
     added |-> sync.added, failed |-> sync.failed, saved |-> saved]

-----------------------------------------------------------------------------
(* The request URL of a message and the urlBase derived from it.           *)

Url(protocol, host, port, path, query) ==
    [protocol |-> protocol, host |-> host, port |-> port, path |-> path, query |-> query]

\* No URL: what stands for the None that analyzeRequest(...).getUrl() gives, or
\* for its raising.
NoUrl == [protocol |-> None, host |-> None, port |-> -1, path |-> None, query |-> None]

DIGITS == <<"0", "1", "2", "3", "4", "5", "6", "7", "8", "9">>

RECURSIVE Decimal(_)
Decimal(n) == IF n < 10 THEN <<DIGITS[n + 1]>> ELSE Decimal(n \div 10) \o <<DIGITS[(n % 10) + 1]>>

\* java.net.URL.toString(): the port is written unless it is -1, the query
\* after a "?" unless there is none.
UrlToString(u) ==
    u.protocol \o <<":", "/", "/">> \o u.host
        \o (IF u.port = -1 THEN <<>> ELSE <<":">> \o Decimal(u.port))
        \o u.path
        \o (IF u.query = None THEN <<>> ELSE <<"?">> \o u.query)

\* s.split('?', 1)[0]
RECURSIVE BeforeQuery(_)
BeforeQuery(s) ==
    IF s = <<>> \/ Head(s) = "?" THEN <<>> ELSE <<Head(s)>> \o BeforeQuery(Tail(s))

\* The protocols java.net.URL has a handler for; with another one the
\* constructor URL(protocol, host, port, file) raises.
KNOWN_PROTOCOLS == {<<"h", "t", "t", "p">>, <<"h", "t", "t", "p", "s">>}

\* url_base of processHttpMessage and u_base of URLAction, for a URL u.
url_base_of(u) ==
    IF u.protocol \in KNOWN_PROTOCOLS /\ u.port >= -1
    THEN UrlToString(Url(u.protocol, u.host, u.port, u.path, None))
    ELSE BeforeQuery(UrlToString(u))

-----------------------------------------------------------------------------
(* The running extension: the start, the handlers of the tab on the event  *)
(* dispatch thread, and a thread of Burp in processHttpMessage.            *)

\* Settings an earlier run can have stored, and what the operator types.
SavedEntries == {E_host, E_url, E_re_host}
S_blank_line == E_host \o <<"\n", " ", "\t", "\n">> \o E_url
SavedSettings ==
    {None, <<>>, S_blank_line}
        \cup {persist_data(l) :
                l \in {x \in SeqsOf(SavedEntries, 1, MaxEntries) :
                          \A i, j \in 1..Len(x) : i # j => x[i] # x[j]}}
RawInputs == {<<>>, <<" ", "\t">>, <<" ">> \o E_host \o <<" ">>, E_url_query, E_re_host}

\* The messages Burp hands over: the host of the HTTP service (None when it is
\* not available), the request URL analyzeRequest gives (NoUrl when it gives
\* none or raises) and the response (NoResponse when there is none yet).
\* No response: what stands for the None of getResponse().
NoResponse == [headers |-> <<>>, body |-> None]

R_html == [headers |-> <<H_status, H_ct_html, H_xfoo>>, body |-> <<"<", "p", ">">>]
U_login == Url(<<"h", "t", "t", "p">>, E_host, -1, <<"/", "p">>, <<"x", "=", "1">>)
Message(host, url, response) == [host |-> host, url |-> url, response |-> response]
Messages ==
    {Message(E_host, U_login, R_html),
     Message(E_host, NoUrl, R_html),
     Message(None, U_login, R_html),
     Message(E_host, U_login, NoResponse),
     Message(None, NoUrl, R_html)}

\* What Burp may do when called: whether loadExtensionSetting returns (loads),
\* whether saveExtensionSetting returns (saves), whether excludeFromScope may
\* raise (excludes), whether the handler's update of the Swing list model
\* returns (uis); and whether `report` records what the handlers did, which the
\* code only prints.
Burp ==
    [loads |-> BOOLEAN, saves |-> BOOLEAN, excludes |-> TRUE, reported |-> TRUE,
     uis |-> BOOLEAN]

\* Burp on a run in which saveExtensionSetting does not raise.
BurpSaving ==
    [loads |-> BOOLEAN, saves |-> {TRUE}, excludes |-> TRUE, reported |-> TRUE,
     uis |-> {TRUE}]

\* Burp on a run in which saveExtensionSetting may raise and excludeFromScope
\* does not.
BurpNotSaving ==
    [loads |-> BOOLEAN, saves |-> BOOLEAN, excludes |-> FALSE, reported |-> TRUE,
     uis |-> {TRUE}]

\* Burp on a run in which none of its calls raises, the handlers' output unread.
BurpNeverRaising ==
    [loads |-> {TRUE}, saves |-> {TRUE}, excludes |-> FALSE, reported |-> FALSE,
     uis |-> {TRUE}]

\* Burp on a run in which its own calls do not raise and an update of the Swing
\* list model may.
BurpUiRaising ==
    [loads |-> {TRUE}, saves |-> {TRUE}, excludes |-> FALSE, reported |-> TRUE,
     uis |-> BOOLEAN]

\* The sets of URLs whose submission to excludeFromScope may raise, among urls.
Raising(env, urls) == IF env.excludes THEN SUBSET urls ELSE {{}}

Init ==
    /\ ignorelist = <<>>
    /\ listModel = <<>>
    /\ setting \in SavedSettings
    /\ ui = [pc |-> "start"]
    /\ report = NoReport
    /\ worker = WorkerIdle
    /\ fn = NoFn

\* The sequence s without its i-th element.
RemoveAt(s, i) == SubSeq(s, 1, i - 1) \o SubSeq(s, i + 1, Len(s))

\* list.remove(val): the first element equal to val goes; ValueError if none.
RemoveFirst(s, val) ==
    IF \E i \in 1..Len(s) : s[i] = val
    THEN RemoveAt(s, CHOOSE i \in 1..Len(s) : s[i] = val /\ \A j \in 1..(i - 1) : s[j] # val)
    ELSE s

\* A membership test that finds nothing.
contains_nothing(s, val) == FALSE

\* val in s
Contains(s, val) == \E i \in 1..Len(s) : s[i] = val

\* The indices of a selection, ascending, as getSelectedIndices returns them.
RECURSIVE Ascending(_)
Ascending(set) ==
    IF set = {} THEN <<>>
    ELSE LET m == CHOOSE x \in set : \A y \in set : x <= y
         IN <<m>> \o Ascending(set \ {m})

Reversed(s) == [i \in 1..Len(s) |-> s[Len(s) + 1 - i]]

\* A save that stores nothing.
save_setting_lost(data, ok) == setting

\* saveExtensionSetting(SETTING_KEY, data): Burp stores data, or raises.
save_setting(data, ok) == IF ok THEN data ELSE setting

\* The list the matcher of the worker iterates: the list object it took when
\* its loop began, which is self.ignorelist unless that was rebound since.
WorkerList == IF worker.live THEN ignorelist ELSE worker.frozen

\* The value self.ignorelist had when the handler now running began, and the
\* one it has when that handler returns.
QuiescentList == IF ui.pc = "remove" THEN ui.before ELSE ignorelist
FinalList == IF ui.pc = "remove" THEN ui.final ELSE ignorelist

\* The worker, as a handler begins a change that leaves the list as `new` when
\* it returns: its matcher, under way, may from now on be taken to have run on
\* `new` as a whole.
Seen(new) ==
    IF worker.pc = "idle" THEN worker
    ELSE [worker EXCEPT
            !.quiet = FALSE,
            !.snaps = IF worker.pc = "match"
                      THEN @ \cup {matches_ignore(new, worker.host, worker.arg)}
                      ELSE @]

\* The worker, as a handler changes the list and is not finished.
SeenPartial == IF worker.pc = "idle" THEN worker ELSE [worker EXCEPT !.quiet = FALSE]

\* The worker, as a handler rebinds self.ignorelist to a new list `new`: a loop
\* under way keeps the list object it iterates, which held `old`.
SeenRebound(old, new) ==
    IF worker.pc = "idle" THEN worker
    ELSE [Seen(new) EXCEPT !.live = FALSE,
                           !.frozen = IF worker.live THEN old ELSE @]

\* registerExtenderCallbacks: load the setting, build the tab, register, and
\* exclude every loaded entry.
RegisterExtenderCallbacks(env) ==
    /\ ui.pc = "start"
    /\ \E loads \in env.loads :
         LET loaded == IF loads THEN load_setting(setting) ELSE <<>>
         IN /\ ignorelist' = loaded
            /\ listModel' = loaded
            /\ \E bad \in Raising(env, UrlsOfAll(loaded)) :
                 report' = Report(env, "load", loads, loaded,
                                  exclude_each(loaded, NoSync, bad), "none")
    /\ ui' = UiIdle
    /\ UNCHANGED <<setting, worker, fn>>

\* _add_from_field; when listModel.addElement raises, the handler ends there,
\* after the append to the list.
AddFromField(env) ==
    /\ ui.pc = "idle"
    /\ \E raw \in RawInputs :
         LET s == Strip(raw)
         IN IF s = <<>> \/ Contains(ignorelist, s)
            THEN /\ report' = Report(env, "add", FALSE, <<s>>, NoSync, "none")
                 /\ UNCHANGED <<ignorelist, listModel, setting, worker>>
            ELSE /\ Len(ignorelist) < MaxEntries
                 /\ ignorelist' = Append(ignorelist, s)
                 /\ worker' = Seen(ignorelist')
                 /\ \E uiok \in env.uis :
                      IF uiok
                      THEN /\ listModel' = Append(listModel, s)
                           /\ \E bad \in Raising(env, ScopeUrlsOf(s)), ok \in env.saves :
                                /\ setting' = save_setting(persist_data(ignorelist'), ok)
                                /\ report' = Report(env, "add", TRUE, <<s>>,
                                                    exclude_entry(s, NoSync, bad),
                                                    IF ok THEN "ok" ELSE "failed")
                      ELSE /\ report' = Report(env, "add", TRUE, <<s>>, NoSync, "raised")
                           /\ UNCHANGED <<listModel, setting>>
    /\ UNCHANGED <<ui, fn>>

\* _edit_selected: idx is the selected row (0 for none), answer what the input
\* dialog returns (None when it is cancelled).  When listModel.set raises, the
\* handler ends before it touches the list.
EditSelected(env) ==
    /\ ui.pc = "idle"
    /\ \E idx \in 0..Len(listModel), answer \in RawInputs \cup {None} :
         LET orig == listModel[idx]
             newval == Strip(answer)
         IN IF idx = 0 \/ answer = None \/ newval = <<>> \/ newval = orig
            THEN /\ report' = Report(env, "edit", FALSE, <<>>, NoSync, "none")
                 /\ UNCHANGED <<ignorelist, listModel, setting, worker>>
            ELSE \E uiok \in env.uis :
                   IF ~uiok
                   THEN /\ report' = Report(env, "edit", FALSE, <<>>, NoSync, "raised")
                        /\ UNCHANGED <<ignorelist, listModel, setting, worker>>
                   ELSE
                 /\ listModel' = [listModel EXCEPT ![idx] = newval]
                 /\ IF idx <= Len(ignorelist)
                    THEN /\ ignorelist' = [ignorelist EXCEPT ![idx] = newval]
                         /\ worker' = Seen(ignorelist')
                    ELSE /\ ignorelist' = listModel'
                         /\ worker' = SeenRebound(ignorelist, ignorelist')
                 /\ \E bad \in Raising(env, ScopeUrlsOf(newval)), ok \in env.saves :
                      /\ setting' = save_setting(persist_data(ignorelist'), ok)
                      /\ report' = Report(env, "edit", TRUE, <<newval>>,
                                          exclude_entry(newval, NoSync, bad),
                                          IF ok THEN "ok" ELSE "failed")
    /\ UNCHANGED <<ui, fn>>

\* What _remove_selected leaves in `report` when its loop has ended: sels are
\* the rows that were selected and before is the list it started with.
RemoveReport(env, sels, before, saved) ==
    IF ~env.reported THEN [op |-> "none"] ELSE
    [op |-> "remove", accepted |-> TRUE, entries |-> <<>>, synced |-> NoSync.synced,
     calls |-> NoSync.calls, added |-> NoSync.added, failed |-> NoSync.failed,
     saved |-> saved, sels |-> sels, before |-> before]

remove_row_by_value(lm, il, i) ==
    [model |-> RemoveAt(lm, i), list |-> RemoveFirst(il, lm[i])]

\* One pass of the loop of _remove_selected, for row i of the list model lm and
\* the list il: the row goes from the model, and from the list the element at
\* i, or the first one equal to the row if the list is shorter than that.
remove_row(lm, il, i) ==
    [model |-> RemoveAt(lm, i),
     list |-> IF i <= Len(il) THEN RemoveAt(il, i) ELSE RemoveFirst(il, lm[i])]

\* The passes for the rows of order, one after the other.
RECURSIVE remove_rows(_, _, _)
remove_rows(lm, il, order) ==
    IF order = <<>> THEN [model |-> lm, list |-> il]
    ELSE LET r == remove_row(lm, il, Head(order))
         IN remove_rows(r.model, r.list, Tail(order))

\* A pass of the running handler; after the last one the list is saved and the
\* handler returns.  When listModel.remove raises, the handler ends there, the
\* rows of the passes before removed and nothing saved.
remove_pass(env, sels, i, rest, uiok) ==
    LET r == remove_row(listModel, ignorelist, i)
    IN IF ~uiok
       THEN /\ report' = Report(env, "remove", TRUE, <<>>, NoSync, "raised")
            /\ ui' = UiIdle
            /\ UNCHANGED <<ignorelist, listModel, setting>>
       ELSE
       /\ listModel' = r.model
       /\ ignorelist' = r.list
       /\ IF rest = <<>>
          THEN /\ \E ok \in env.saves :
                    /\ setting' = save_setting(persist_data(r.list), ok)
                    /\ report' = RemoveReport(env, sels, QuiescentList,
                                              IF ok THEN "ok" ELSE "failed")
               /\ ui' = UiIdle
          ELSE /\ ui' = [pc |-> "remove", sels |-> sels, todo |-> rest,
                         before |-> QuiescentList,
                         final |-> remove_rows(listModel, ignorelist, <<i>> \o rest).list]
               /\ UNCHANGED <<setting, report>>

\* _remove_selected, up to the end of the first pass of its loop: sels are the
\* selected rows, taken last to first.
RemoveSelected(env) ==
    /\ ui.pc = "idle"
    /\ \E sels \in SUBSET (1..Len(listModel)) :
         IF sels = {}
         THEN /\ report' = Report(env, "remove", FALSE, <<>>, NoSync, "none")
              /\ UNCHANGED <<ignorelist, listModel, setting, ui, worker>>
         ELSE LET order == Reversed(Ascending(sels))
              IN \E uiok \in env.uis :
                   /\ remove_pass(env, sels, Head(order), Tail(order), uiok)
                   /\ worker' = IF uiok
                                THEN Seen(remove_rows(listModel, ignorelist, order).list)
                                ELSE worker
    /\ UNCHANGED fn

\* _remove_selected, a later pass of its loop.
RemoveNext(env) ==
    /\ ui.pc = "remove"
    /\ \E uiok \in env.uis :
         /\ remove_pass(env, ui.sels, Head(ui.todo), Tail(ui.todo), uiok)
         /\ worker' = IF uiok THEN SeenPartial ELSE worker
    /\ UNCHANGED fn

\* _exclude_selected
ExcludeSelected(env) ==
    /\ ui.pc = "idle"
    /\ \E sels \in SUBSET (1..Len(listModel)) :
         IF sels = {}
         THEN /\ report' = Report(env, "exclude", FALSE, <<>>, NoSync, "none")
              /\ UNCHANGED setting
         ELSE LET order == Ascending(sels)
                  vals == [k \in 1..Len(order) |-> listModel[order[k]]]
              IN \E bad \in Raising(env, UrlsOfAll(vals)), ok \in env.saves :
                   /\ setting' = save_setting(persist_data(ignorelist), ok)
                   /\ report' = Report(env, "exclude", TRUE, vals,
                                       exclude_each(vals, NoSync, bad),
                                       IF ok THEN "ok" ELSE "failed")
    /\ UNCHANGED <<ignorelist, listModel, ui, worker, fn>>

\* _persist_settings, the Save button
PersistSettings(env) ==
    /\ ui.pc = "idle"
    /\ \E ok \in env.saves :
         /\ setting' = save_setting(persist_data(ignorelist), ok)
         /\ report' = Report(env, "save", TRUE, <<>>, NoSync, IF ok THEN "ok" ELSE "failed")
    /\ UNCHANGED <<ignorelist, listModel, ui, worker, fn>>

\* _clear_all: confirm is the answer to the confirmation dialog.  When
\* listModel.clear raises, the handler ends before it touches the list.
ClearAll(env) ==
    /\ ui.pc = "idle"
    /\ \E confirm \in BOOLEAN :
         IF ~confirm
         THEN /\ report' = Report(env, "clear", FALSE, <<>>, NoSync, "none")
              /\ UNCHANGED <<ignorelist, listModel, setting, worker>>
         ELSE \E uiok \in env.uis :
                IF ~uiok
                THEN /\ report' = Report(env, "clear", FALSE, <<>>, NoSync, "raised")
                     /\ UNCHANGED <<ignorelist, listModel, setting, worker>>
                ELSE
              /\ listModel' = <<>>
              /\ ignorelist' = <<>>
              /\ worker' = SeenRebound(ignorelist, <<>>)
              /\ \E ok \in env.saves :
                   /\ setting' = save_setting(<<>>, ok)
                   /\ report' = Report(env, "clear", TRUE, <<>>, NoSync,
                                       IF ok THEN "ok" ELSE "failed")
    /\ UNCHANGED <<ui, fn>>

\* The host HostAction takes from a message: the service's, else the request
\* URL's, else None.
host_of_message(m) ==
    IF Truthy(m.host) THEN m.host
    ELSE IF m.url # NoUrl /\ Truthy(m.url.host) THEN m.url.host
    ELSE None

\* The entry URLAction takes from a message: the urlBase of its request URL,
\* None when analyzeRequest gives no URL.
url_of_message(m) == IF m.url = NoUrl THEN None ELSE url_base_of(m.url)

\* The loop of HostAction.actionPerformed and of URLAction.actionPerformed over
\* the entries taken from the selected messages: st holds self.ignorelist
\* (list), added_entries (new) and the record of the _exclude_entry calls.
\* With st.fails, listModel.addElement raises for the first entry appended:
\* the entry is in the list and not in added_entries, and _exclude_entry is not
\* called for it; the loop of HostAction ends there (st.aborts, its `try` is
\* around the loop), the loop of URLAction goes on with the next message (its
\* `try` is inside the loop).
RECURSIVE capture_each(_, _, _)
capture_each(found, st, bad) ==
    IF found = <<>> THEN st
    ELSE LET e == Head(found)
         IN IF e = None THEN capture_each(Tail(found), st, bad)
            ELSE IF ~Contains(st.list, e) /\ st.fails
            THEN LET raised == [st EXCEPT !.list = Append(@, e), !.fails = FALSE,
                                          !.raised = TRUE]
                 IN IF st.aborts THEN raised ELSE capture_each(Tail(found), raised, bad)
            ELSE capture_each(
                    Tail(found),
                    [st EXCEPT
                       !.list = IF Contains(st.list, e) THEN @ ELSE Append(@, e),
                       !.new = IF Contains(st.list, e) THEN @ ELSE Append(@, e),
                       !.sync = exclude_entry(e, st.sync, bad)],
                    bad)

\* A context-menu action on the selected messages msgs, taking from each the
\* entry found[k]; the setting is saved when an entry was added and the loop
\* was not left by an exception.
capture(env, op, found) ==
    \E bad \in Raising(env, UrlsOfAll(SelectSeq(found, LAMBDA e : e # None))),
       uiok \in env.uis :
        LET st == capture_each(found,
                               [list |-> ignorelist, new |-> <<>>, sync |-> NoSync,
                                fails |-> ~uiok, aborts |-> op = "host",
                                raised |-> FALSE],
                               bad)
            left == st.raised /\ st.aborts
        IN /\ uiok \/ st.raised
           /\ Len(st.list) <= MaxEntries
           /\ ignorelist' = st.list
           /\ listModel' = listModel \o st.new
           /\ worker' = IF st.list = ignorelist THEN worker ELSE Seen(st.list)
           /\ IF st.new = <<>> \/ left
              THEN /\ report' = Report(env, op, st.new # <<>>, found, st.sync,
                                       IF st.raised THEN "raised" ELSE "none")
                   /\ UNCHANGED setting
              ELSE \E ok \in env.saves :
                     /\ setting' = save_setting(persist_data(st.list), ok)
                     /\ report' = Report(env, op, TRUE, found, st.sync,
                                         IF ok THEN "ok" ELSE "failed")

\* The selections a context-menu action is invoked on: one or two messages.
SelectedMessages ==
    SeqsOf({Message(E_host, U_login, R_html), Message(None, U_login, R_html),
            Message(None, NoUrl, R_html)}, 1, 2)

\* HostAction.actionPerformed, "Ignore Host (ANY)"
HostAction(env) ==
    /\ ui.pc = "idle"
    /\ \E msgs \in SelectedMessages :
         capture(env, "host", [k \in 1..Len(msgs) |-> host_of_message(msgs[k])])
    /\ UNCHANGED <<ui, fn>>

\* URLAction.actionPerformed, "Ignore Full URL (path only)"
URLAction(env) ==
    /\ ui.pc = "idle"
    /\ \E msgs \in SelectedMessages :
         capture(env, "url", [k \in 1..Len(msgs) |-> url_of_message(msgs[k])])
    /\ UNCHANGED <<ui, fn>>

-----------------------------------------------------------------------------
(* processHttpMessage on a thread of Burp.  The loop of _matches_ignore    *)
(* takes one entry of the list per step, by position, as the list iterator *)
(* does; the handlers of the tab run between its steps.                    *)

Finished(w) == [w EXCEPT !.pc = "done"]

hook_ignores_result(w, result) ==
    IF w.response = NoResponse THEN Finished([w EXCEPT !.result = result])
    ELSE Finished([w EXCEPT !.result = result,
                            !.message = rewrite(w.response),
                            !.sets = @ + 1])

\* processHttpMessage from the return of the matcher on: nothing on False or
\* with no response, else the rewritten response is set.
after_match(w, result) ==
    IF ~result THEN Finished([w EXCEPT !.result = FALSE])
    ELSE IF w.response = NoResponse THEN Finished([w EXCEPT !.result = TRUE])
    ELSE Finished([w EXCEPT !.result = TRUE,
                            !.message = rewrite(w.response),
                            !.sets = @ + 1])

host_never_missing(host) == FALSE

\* if not host: return
host_missing(host) == ~Truthy(host)

\* url_base if url_base else ""
match_arg(url_base) == IF Truthy(url_base) THEN url_base ELSE <<>>

\* processHttpMessage up to the call of the matcher.
ProcessHttpMessage ==
    /\ ui.pc # "start"
    /\ worker.pc = "idle"
    /\ \E m \in Messages, messageIsRequest \in BOOLEAN :
         LET w == [pc |-> "match", isReq |-> messageIsRequest, host |-> m.host,
                   url_base |-> url_of_message(m), arg |-> match_arg(url_of_message(m)),
                   response |-> m.response, message |-> m.response, sets |-> 0,
                   called |-> FALSE, result |-> FALSE, idx |-> 1,
                   live |-> TRUE, frozen |-> <<>>, snaps |-> {}, quiet |-> TRUE]
         IN worker' =
              IF messageIsRequest \/ host_missing(m.host) THEN Finished(w)
              ELSE [w EXCEPT !.called = TRUE,
                             !.snaps = {matches_ignore(QuiescentList, w.host, w.arg),
                                        matches_ignore(FinalList, w.host, w.arg)}]
    /\ UNCHANGED <<ignorelist, listModel, setting, ui, report, fn>>

\* One turn of `for entry in self.ignorelist`: the iterator gives the entry at
\* its position, or ends the loop when the list is no longer than that.
MatchStep ==
    /\ worker.pc = "match"
    /\ worker' =
         IF worker.idx > Len(WorkerList) THEN after_match(worker, FALSE)
         ELSE IF entry_raises(WorkerList[worker.idx], worker.host, worker.arg)
         THEN after_match(worker, FALSE)
         ELSE IF entry_matches(WorkerList[worker.idx], worker.host, worker.arg)
         THEN after_match(worker, TRUE)
         ELSE [worker EXCEPT !.idx = @ + 1]
    /\ UNCHANGED <<ignorelist, listModel, setting, ui, report, fn>>

\* processHttpMessage returns.
HookReturn ==
    /\ worker.pc = "done"
    /\ worker' = WorkerIdle
    /\ UNCHANGED <<ignorelist, listModel, setting, ui, report, fn>>

\* The start and the handlers of the tab and of the context menu, which all run
\* on the one event dispatch thread, on a run in which saveExtensionSetting
\* does not raise.  processHttpMessage writes nothing they read, so it is left
\* out here.
Next ==
    \/ RegisterExtenderCallbacks(BurpSaving)
    \/ AddFromField(BurpSaving)
    \/ EditSelected(BurpSaving)
    \/ RemoveSelected(BurpSaving)
    \/ RemoveNext(BurpSaving)
    \/ ExcludeSelected(BurpSaving)
    \/ PersistSettings(BurpSaving)
    \/ ClearAll(BurpSaving)
    \/ HostAction(BurpSaving)
    \/ URLAction(BurpSaving)

Spec == Init /\ [][Next]_vars

\* The start and the handlers on a run in which saveExtensionSetting may raise.
NextSave ==
    \/ RegisterExtenderCallbacks(BurpNotSaving)
    \/ AddFromField(BurpNotSaving)
    \/ EditSelected(BurpNotSaving)
    \/ RemoveSelected(BurpNotSaving)
    \/ RemoveNext(BurpNotSaving)
    \/ ExcludeSelected(BurpNotSaving)
    \/ PersistSettings(BurpNotSaving)
    \/ ClearAll(BurpNotSaving)
    \/ HostAction(BurpNotSaving)
    \/ URLAction(BurpNotSaving)

SpecSave == Init /\ [][NextSave]_vars

\* The start and the handlers on a run in which no call into Burp raises and
\* the updates of the Swing list model may.
NextUi ==
    \/ RegisterExtenderCallbacks(BurpUiRaising)
    \/ AddFromField(BurpUiRaising)
    \/ EditSelected(BurpUiRaising)
    \/ RemoveSelected(BurpUiRaising)
    \/ RemoveNext(BurpUiRaising)
    \/ ExcludeSelected(BurpUiRaising)
    \/ PersistSettings(BurpUiRaising)
    \/ ClearAll(BurpUiRaising)
    \/ HostAction(BurpUiRaising)
    \/ URLAction(BurpUiRaising)

SpecUi == Init /\ [][NextUi]_vars

\* The same with a thread of Burp in processHttpMessage beside the event
\* dispatch thread, on a run in which no call into Burp raises: whether one
\* does changes the setting and the report, never the list the matcher reads.
NextHook ==
    \/ RegisterExtenderCallbacks(BurpNeverRaising)
    \/ AddFromField(BurpNeverRaising)
    \/ EditSelected(BurpNeverRaising)
    \/ RemoveSelected(BurpNeverRaising)
    \/ RemoveNext(BurpNeverRaising)
    \/ ExcludeSelected(BurpNeverRaising)
    \/ PersistSettings(BurpNeverRaising)
    \/ ClearAll(BurpNeverRaising)
    \/ HostAction(BurpNeverRaising)
    \/ URLAction(BurpNeverRaising)
    \/ ProcessHttpMessage
    \/ MatchStep
    \/ HookReturn

SpecHook == Init /\ [][NextHook]_vars

-----------------------------------------------------------------------------
(* Claims on the scope synchronizer, under Spec. *)

Submitted(url) == \E j \in 1..Len(report.calls) : report.calls[j].url = url
SubmittedOk(url) ==
    \E j \in 1..Len(report.calls) : report.calls[j].url = url /\ report.calls[j].ok
SubmittedFailing(url) ==
    \E j \in 1..Len(report.calls) : report.calls[j].url = url /\ ~report.calls[j].ok
ReportedAdded(e) == \E j \in 1..Len(report.added) : report.added[j].entry = e
ReportedFailed(e) == \E j \in 1..Len(report.failed) : report.failed[j].entry = e

\* C3: for every host entry synchronized, http://host/ and https://host/ are
\* both submitted, the second also when the first fails; and when the first
\* fails and the second succeeds the result holds a success and a failure.
C3_BothSchemesSubmitted ==
    report.op # "none" =>
        \A i \in 1..Len(report.synced) :
            LET e == report.synced[i]
            IN (e # <<>> /\ entry_kind(e) = "host") =>
                  /\ Submitted(HttpUrlOf(e))
                  /\ Submitted(HttpsUrlOf(e))
                  /\ (SubmittedFailing(HttpUrlOf(e)) /\ SubmittedOk(HttpsUrlOf(e)))
                        => (ReportedAdded(e) /\ ReportedFailed(e))

\* C10: the bulk synchronization at the start and that of the selected entries
\* call the synchronizer for every entry, in order, also after one that failed;
\* an entry with a submission that failed is reported failed, an entry whose
\* submissions all succeeded is reported added.
C10_FailureDoesNotAbortBulkSync ==
    (report.op \in {"load", "exclude"} /\ report.accepted) =>
        /\ report.synced = report.entries
        /\ \A i \in 1..Len(report.entries) :
             LET e == report.entries[i]
             IN /\ (\E u \in ScopeUrlsOf(e) : SubmittedFailing(u)) => ReportedFailed(e)
                /\ (ScopeUrlsOf(e) # {} /\ \A u \in ScopeUrlsOf(e) : SubmittedOk(u))
                      => ReportedAdded(e)

\* C10's case: at the start the host entry, first in the list, failed and the
\* URL entry after it was submitted and is reported added.
C10_Witness ==
    /\ report.op = "load"
    /\ report.entries = <<E_host, E_url>>
    /\ ReportedFailed(E_host)
    /\ SubmittedOk(E_url)
    /\ ReportedAdded(E_url)

-----------------------------------------------------------------------------
(* Claims on the pipeline hook, under SpecHook. *)

Done == worker.pc = "done"

\* C4: a call of the matcher returns what it would return on the list as a
\* whole as it stood before or after some handler, at some moment of the call
\* (a handler running during the call counts with the list as it found it and
\* as it leaves it).
C4_MatcherSeesAtomicSnapshot ==
    (Done /\ worker.called) => worker.result \in worker.snaps

\* C5: the hook sets the response at most once, only for a response and only
\* when the matcher returned true; when the matcher returned false, or was not
\* called, the message is as it was; when it returned true and there is a
\* response, the message is the rewritten response.
C5_ReplacedOnlyOnMatchedResponse ==
    worker.pc # "idle" =>
        /\ worker.sets <= 1
        /\ worker.sets = 1 => (~worker.isReq /\ worker.called /\ worker.result)
        /\ (Done /\ (~worker.called \/ ~worker.result))
              => (worker.sets = 0 /\ worker.message = worker.response)
        /\ (Done /\ worker.called /\ worker.result /\ worker.response # NoResponse)
              => (worker.sets = 1 /\ worker.message = rewrite(worker.response))

\* C5's case: the matcher returned true for a response, which was replaced.
C5_Witness ==
    /\ Done
    /\ worker.called
    /\ worker.result
    /\ worker.sets = 1
    /\ worker.message = rewrite(R_html)

\* C6 as stated: when the host is not available, or the urlBase cannot be
\* derived, the response is left as it was, whatever the list holds.
C6_ExtractionFailureIsNonMatch ==
    (Done /\ ~worker.isReq /\ (~Truthy(worker.host) \/ worker.url_base = None))
        => (worker.sets = 0 /\ worker.message = worker.response)

\* C6 amended: when the host is not available the matcher is not called and the
\* response is left as it was; when only the urlBase cannot be derived the
\* matcher is called with the host and "" for the urlBase, and the response is
\* rewritten exactly when it returns true and there is a response.
C6_MissingUrlMatchesOnHost ==
    (Done /\ ~worker.isReq) =>
        /\ ~Truthy(worker.host)
              => (~worker.called /\ worker.sets = 0 /\ worker.message = worker.response)
        /\ (Truthy(worker.host) /\ worker.url_base = None)
              => /\ worker.called
                 /\ worker.arg = <<>>
                 /\ worker.sets = 1 <=> (worker.result /\ worker.response # NoResponse)
                 /\ worker.quiet
                       => worker.result = matches_ignore(ignorelist, worker.host, <<>>)

\* C6's case: a response whose request URL could not be derived was rewritten,
\* its host matching an entry.
C6_Witness ==
    /\ Done
    /\ ~worker.isReq
    /\ Truthy(worker.host)
    /\ worker.url_base = None
    /\ worker.result
    /\ worker.sets = 1

\* C8: with a URL entry as the only entry, a message matches exactly when its
\* urlBase equals the entry's URL with the query stripped, however the entry
\* came into the list.
C8_UrlEntryMatchesNormalized ==
    (/\ Done
     /\ worker.called
     /\ worker.quiet
     /\ worker.url_base # None
     /\ Len(ignorelist) = 1
     /\ entry_kind(ignorelist[1]) = "url")
        => (worker.result <=> worker.url_base = BeforeQuery(ignorelist[1]))

-----------------------------------------------------------------------------
(* Claims on the mutations of the ignore list, under Spec. *)

\* How often val occurs in the sequence s.
Occurrences(s, val) == Cardinality({i \in 1..Len(s) : s[i] = val})

\* The step is a whole run of the handler that reports as op.
HandlerRan(op) == ui.pc = "idle" /\ ui'.pc = "idle" /\ report'.op = op

\* C11: an Add, and a context-menu capture of hosts or of URLs, leaves the
\* list as it is when every string it inserts is in the list already, and in
\* any case changes the number of occurrences of no string that was in the list
\* and leaves a string it inserted that was not in the list there once.
C11_InsertIsIdempotent ==
    [][\A op \in {"add", "host", "url"} :
         HandlerRan(op) =>
             LET inserted == {report'.entries[k] : k \in 1..Len(report'.entries)}
                                 \ {<<>>, None}
             IN /\ (\A e \in inserted : Contains(ignorelist, e))
                       => ignorelist' = ignorelist
                /\ \A e \in inserted :
                       Occurrences(ignorelist', e) =
                           IF Contains(ignorelist, e) THEN Occurrences(ignorelist, e)
                           ELSE 1]_vars

\* C11's case: an Add of a string that is in the list was turned down, and the
\* string is in the list once.
C11_Witness ==
    /\ ui.pc = "idle"
    /\ report.op = "add"
    /\ ~report.accepted
    /\ report.entries # << <<>> >>
    /\ Occurrences(ignorelist, report.entries[1]) = 1

-----------------------------------------------------------------------------
(* Claims on the response rewrite, under SpecRewrite. *)

\* The name of a header line: what stands before its first colon; a line
\* without a colon has none.
RECURSIVE BeforeColon(_)
BeforeColon(h) ==
    IF h = <<>> \/ Head(h) = ":" THEN <<>> ELSE <<Head(h)>> \o BeforeColon(Tail(h))
HasColon(h) == \E i \in 1..Len(h) : h[i] = ":"
NamedContentType(h) ==
    HasColon(h) /\ Lower(BeforeColon(h)) = SubSeq(STR_content_type_colon, 1, 12)

Rewritten == fn.op = "rewrite" /\ fn.times >= 1

\* C12: the rewritten header list is the input's with every header named
\* Content-Type, in any letter case, taken out and the others in their order,
\* then "Content-Type: text/css; charset=UTF-8", then "X-OFS-Vanisher: ignored";
\* the body is the input's.
C12_OtherHeadersAndBodyKept ==
    Rewritten =>
        /\ fn.once.headers =
              SelectSeq(fn.r.headers, LAMBDA h : ~NamedContentType(h))
                  \o <<HDR_CONTENT_TYPE_CSS, HDR_MARKER>>
        /\ fn.once.body = fn.r.body

\* C12's case: the headers "Content-Type: text/html", "X-Foo: 1" with a body
\* were rewritten to "X-Foo: 1" and the two headers of the rewrite.
C12_Witness ==
    /\ Rewritten
    /\ fn.r.headers = <<H_ct_html, H_xfoo>>
    /\ fn.r.body # <<>>
    /\ fn.once.headers = <<H_xfoo, HDR_CONTENT_TYPE_CSS, HDR_MARKER>>

\* C13: the rewritten header list holds exactly one header named Content-Type,
\* however many the input held.
C13_OneContentType ==
    Rewritten =>
        Cardinality({i \in 1..Len(fn.once.headers) :
                        NamedContentType(fn.once.headers[i])}) = 1

\* C13's case: a response with two Content-Type headers, in different letter
\* case, was rewritten.
C13_Witness ==
    /\ Rewritten
    /\ fn.r.headers = <<H_status, H_ct_html, H_ct_upper>>
    /\ fn.once.headers = <<H_status, HDR_CONTENT_TYPE_CSS, HDR_MARKER>>

-----------------------------------------------------------------------------
(* Claims on the matcher as a whole, under SpecMatch. *)

\* C14: the matcher returns the disjunction of what its entries give one by
\* one, a regex entry that does not compile giving false; so the order of the
\* entries and a malformed regex entry among them change nothing.
C14_ResultIsDisjunction ==
    Returned =>
        (fn.out <=>
            \E i \in 1..Len(fn.list) : entry_matches(fn.list[i], fn.host, fn.url_base))

-----------------------------------------------------------------------------
(* Further claims on the scope synchronizer, under Spec. *)

IsRegexEntry(e) == e # <<>> /\ Head(e) = "^"

\* C15: for a regex entry the synchronizer submits nothing to excludeFromScope
\* and reports the entry failed, never added: no submission is of the entry or
\* of a URL made from it, and there are at most two submissions for each other
\* entry synchronized.
C15_RegexNeverSubmitted ==
    report.op # "none" =>
        /\ \A i \in 1..Len(report.synced) :
             LET e == report.synced[i]
             IN IsRegexEntry(e) =>
                   /\ ~Submitted(e)
                   /\ ~Submitted(HttpUrlOf(e))
                   /\ ~Submitted(HttpsUrlOf(e))
                   /\ \E j \in 1..Len(report.failed) :
                          report.failed[j] = Failure(e, "regex")
                   /\ ~ReportedAdded(e)
        /\ Len(report.calls) <=
              2 * Cardinality({i \in 1..Len(report.synced) :
                                  ~IsRegexEntry(report.synced[i])})

\* C15's case: a regex entry was added in the tab and synchronized: nothing was
\* submitted and the entry is reported failed.
C15_Witness ==
    /\ report.op = "add"
    /\ report.accepted
    /\ report.synced = <<E_re_host>>
    /\ report.calls = <<>>
    /\ ReportedFailed(E_re_host)

-----------------------------------------------------------------------------
(* Claims on persistence after the mutations, under SpecSave. *)

\* The setting is the serialization of the list.
Agree == setting = persist_data(ignorelist)

\* C16: when a handler that changed the list (Add, Edit, Remove, Clear, a
\* capture) has returned and its save did not raise, the setting is the list's
\* entries joined by newlines; and from then on the two agree whenever no
\* handler is running, until a save raises.
C16_SavedAfterEveryMutation ==
    /\ [](/\ ui.pc = "idle"
          /\ report.op \in {"add", "edit", "remove", "clear", "host", "url"}
          /\ report.accepted
          /\ report.saved = "ok"
          => Agree)
    /\ [][(/\ ui.pc = "idle"
           /\ ui'.pc = "idle"
           /\ Agree
           /\ report'.op # "none"
           /\ report'.saved # "failed")
          => Agree']_vars

\* C16's case: rows were removed from the list and the rest saved.
C16_Witness ==
    /\ ui.pc = "idle"
    /\ report.op = "remove"
    /\ report.accepted
    /\ report.saved = "ok"
    /\ Agree
    /\ ignorelist # <<>>

-----------------------------------------------------------------------------
(* Claims on when the scope synchronizer runs, under Spec. *)

\* C17: at the start the synchronizer is called once for each entry of the
\* list, in order, which are the entries of the stored setting when it could be
\* read; an Add and an Edit that are accepted call it once, for the new value,
\* which is then in the list; an Add and an Edit that are turned down do not
\* call it.
C17_SyncedOncePerEntry ==
    /\ report.op = "load" =>
          /\ report.synced = report.entries
          /\ ui.pc = "idle" => report.synced = ignorelist
          /\ report.accepted => report.synced = load_setting(setting)
    /\ (ui.pc = "idle" /\ report.op \in {"add", "edit"}) =>
          IF report.accepted
          THEN /\ Len(report.synced) = 1
               /\ report.synced[1] # <<>>
               /\ Contains(ignorelist, report.synced[1])
          ELSE report.synced = <<>> /\ report.calls = <<>>

\* C17's case: two stored entries were loaded at the start and each handed to
\* the synchronizer.
C17_Witness ==
    /\ report.op = "load"
    /\ report.accepted
    /\ Len(load_setting(setting)) = 2
    /\ report.synced = load_setting(setting)

-----------------------------------------------------------------------------
(* Claims on a failing UI layer, under SpecUi. *)

\* C18: an Add, an Edit, a Remove, a Clear and a capture that begin with the
\* setting equal to the serialization of the list end with the two equal, also
\* when an update of the list model raised in between; and a Remove of several
\* rows ends with the two equal however it ends.
C18_ConsistentWhenUiFails ==
    [][/\ (/\ ui.pc = "idle"
           /\ ui'.pc = "idle"
           /\ report'.op \in {"add", "edit", "remove", "clear", "host", "url"}
           /\ Agree)
          => Agree'
       /\ (ui.pc = "remove" /\ ui'.pc = "idle") => Agree']_vars


-----------------------------------------------------------------------------
(* C19: no raw string twice in the list.                                   *)

\* C19: the settings of Init hold no line twice; after any sequence of Add,
\* Edit, Remove, Clear and context-menu captures self.ignorelist holds no raw
\* string at two positions, also after an Edit to a string that another
\* position already holds.
C19_NoDuplicateEntries ==
    \A i, j \in 1..Len(ignorelist) : i # j => ignorelist[i] # ignorelist[j]


-----------------------------------------------------------------------------
(* C20: no empty or whitespace-only entry.                                 *)

\* An entry that is a string with a character str.strip() keeps.
NotBlank(e) == e # None /\ \E k \in 1..Len(e) : e[k] \notin WHITESPACE

\* C20: in every reachable state each element of self.ignorelist is a string
\* with a character that is not whitespace; an Add whose input is empty after
\* strip and an Edit that is not accepted leave self.ignorelist as it was.
C20_NoBlankEntry ==
    /\ [](\A i \in 1..Len(ignorelist) : NotBlank(ignorelist[i]))
    /\ [][/\ (HandlerRan("add") /\ report'.entries = <<<<>>>>)
               => ignorelist' = ignorelist
          /\ (HandlerRan("edit") /\ ~report'.accepted)
               => ignorelist' = ignorelist]_vars

\* The start skipped the blank line of the setting, and an Add of blank input
\* was turned down after it.
C20_Witness ==
    /\ setting = S_blank_line
    /\ ignorelist = <<E_host, E_url>>
    /\ report.op = "add" /\ report.entries = <<<<>>>> /\ ~report.accepted


-----------------------------------------------------------------------------
(* C21: Remove deletes the selected rows and nothing else.                 *)

\* The start with a stored list of up to MaxRows lines over two values, equal
\* lines among them, and Remove with every selection of its rows.
InitRemove ==
    /\ ignorelist = <<>>
    /\ listModel = <<>>
    /\ setting \in {persist_data(l) : l \in SeqsOf({E_host, E_url}, 1, MaxRows)}
    /\ ui = [pc |-> "start"]
    /\ report = NoReport
    /\ worker = WorkerIdle
    /\ fn = NoFn

NextRemove ==
    \/ RegisterExtenderCallbacks(BurpSaving)
    \/ RemoveSelected(BurpSaving)
    \/ RemoveNext(BurpSaving)

SpecRemove == InitRemove /\ [][NextRemove]_vars

\* The elements of s at the positions from i on that are not in sels, in the
\* order of s.
RECURSIVE Kept(_, _, _)
Kept(s, sels, i) ==
    IF i > Len(s) THEN <<>>
    ELSE (IF i \in sels THEN <<>> ELSE <<s[i]>>) \o Kept(s, sels, i + 1)

\* C21: when _remove_selected has ended for a selection of one or more rows,
\* self.ignorelist is the list it started with without the elements at the
\* selected positions, the others in their order, and the list model holds the
\* same sequence.
C21_RemoveDeletesSelectedRows ==
    (ui.pc = "idle" /\ report.op = "remove" /\ report.accepted /\ report.saved # "raised")
        => /\ ignorelist = Kept(report.before, report.sels, 1)
           /\ listModel = ignorelist

\* Rows 1 and 3 of four were removed, rows 1, 3 and 4 holding equal entries.
C21_Witness ==
    /\ ui.pc = "idle" /\ report.op = "remove" /\ report.accepted
    /\ report.sels = {1, 3}
    /\ report.before = <<E_host, E_url, E_host, E_host>>
    /\ ignorelist = <<E_url, E_host>>

=============================================================================
